---- MODULE Spec2Model ----
(***************************************************************************)
(* Enrollment lifecycle and progress workflow of LearnNest (src/app.py).   *)
(* The relational tables are modelled as sets/bags of rows, every request  *)
(* handler as an action that runs inside the global db_lock.               *)
(***************************************************************************)
EXTENDS Integers, FiniteSets, Sequences, Bags, TLC

VARIABLES enrollments, nextEnrollmentId, notifications, submissions,
          db_lock, pc, req, last, deleted

vars == <<enrollments, nextEnrollmentId, notifications, submissions,
          db_lock, pc, req, last, deleted>>

(* ---------------------------- bounds ---------------------------------- *)
\* rows the enrollments table ever receives (AUTOINCREMENT ids 1..MaxEnrollmentId)
MaxEnrollmentId == 3
\* rows the notifications table holds before the model stops adding more
MaxNotifications == 4

(* ------------------------- fixed database rows ------------------------ *)
NULL == "NULL"
NoThread == "free"
Threads == {"t1", "t2"}

\* users table: id -> role, instructor_approval_status
Users ==
  [ sA  |-> [role |-> "student",    instructor_approval_status |-> "approved"],
    sB  |-> [role |-> "student",    instructor_approval_status |-> "approved"],
    i1  |-> [role |-> "instructor", instructor_approval_status |-> "approved"],
    i2  |-> [role |-> "instructor", instructor_approval_status |-> "approved"],
    i3  |-> [role |-> "instructor", instructor_approval_status |-> "pending"],
    adm |-> [role |-> "admin",      instructor_approval_status |-> "approved"] ]

UserIds == DOMAIN Users
Students == {u \in UserIds : Users[u].role = "student"}

\* werkzeug generate_password_hash / check_password_hash: a digest verifies
\* exactly the secret it was generated from
generate_password_hash(secret) == <<"pbkdf2", secret>>

\* mutant: every key verifies
check_password_hash_any(digest, secret) == TRUE

check_password_hash(digest, secret) == digest = generate_password_hash(secret)

\* courses table: id -> row
Courses ==
  [ c1 |-> [course_code |-> "CS1", instructor_id |-> "i1", max_students |-> 1,
            enrollment_key_hash |-> generate_password_hash("key1"), is_active |-> 1],
    c2 |-> [course_code |-> "CS2", instructor_id |-> "i2", max_students |-> 2,
            enrollment_key_hash |-> generate_password_hash("key2"), is_active |-> 1],
    c3 |-> [course_code |-> "CS3", instructor_id |-> "i1", max_students |-> 2,
            enrollment_key_hash |-> NULL, is_active |-> 1],
    c4 |-> [course_code |-> "CS4", instructor_id |-> "i1", max_students |-> 2,
            enrollment_key_hash |-> generate_password_hash("key1"), is_active |-> 0] ]

CourseIds == DOMAIN Courses
NoCourse == "none"

\* the tables init_db creates (its CREATE TABLE IF NOT EXISTS statements)
Tables ==
  {"users", "courses", "enrollments", "assignments", "assignment_assets",
   "assignment_submissions", "quiz_questions", "question_options",
   "student_mcq_answers", "forums", "forum_topics", "forum_replies",
   "chat_messages", "direct_messages", "file_uploads", "notifications",
   "course_resources", "course_meeting_links", "course_video_playlists",
   "student_video_playlists", "ai_notes"}

\* the columns of the assignments table: those of its CREATE TABLE statement
\* and of the ALTER TABLE statements that follow it (there is no is_active)
AssignmentColumns ==
  {"id", "course_id", "title", "description", "instructions", "due_date",
   "max_points", "allow_late_submission", "created_at",
   "assignment_type", "status", "published_at", "ai_context"}

\* assignments table (quizzes): id -> row
Assignments ==
  [ q1 |-> [course_id |-> "c1", assignment_type |-> "quiz"],
    q2 |-> [course_id |-> "c1", assignment_type |-> "quiz"],
    q3 |-> [course_id |-> "c2", assignment_type |-> "quiz"] ]

AssignmentIds == DOMAIN Assignments

Statuses == {"pending", "approved", "rejected", "blocked"}
CURRENT_TIMESTAMP == "ts"

(* ----------------------------- helpers -------------------------------- *)
\* the rows the courses and the users table hold: the fixed rows less those
\* a DELETE has removed
ExistingCourses == CourseIds \ deleted.courses
ExistingUsers == UserIds \ deleted.users

\* str.upper() on the course codes the forms can send
Upper(s) ==
  CASE s = "cs1" -> "CS1"
    [] s = "cs2" -> "CS2"
    [] OTHER -> s

CourseCodeInputs == {"", "cs1", "CS2", "CS3", "CS4", "XX9"}
KeyInputs == {"", "key1", "key2"}

\* SELECT ... FROM courses WHERE course_code = ? AND is_active = 1
CourseByCode(code) ==
  {c \in ExistingCourses : Courses[c].course_code = code /\ Courses[c].is_active = 1}
\* mutant: the capacity check counts the rows of every status
CountEnrolled(rows, c) ==
  Cardinality({e \in rows : e.course_id = c})

\* SELECT COUNT(*) FROM enrollments WHERE course_id = ? AND status = 'approved'
CountApproved(rows, c) ==
  Cardinality({e \in rows : e.course_id = c /\ e.status = "approved"})
\* mutant: the duplicate check overlooks rejected and blocked rows
FindActiveEnrollment(rows, s, c) ==
  {e \in rows : /\ e.student_id = s /\ e.course_id = c
                /\ e.status \in {"pending", "approved"}}

\* SELECT id FROM enrollments WHERE student_id = ? AND course_id = ?
FindEnrollment(rows, s, c) ==
  {e \in rows : e.student_id = s /\ e.course_id = c}
\* mutant: the request is inserted as already approved
NewEnrollmentApproved(id, s, c) ==
  [id |-> id, student_id |-> s, course_id |-> c, status |-> "approved",
   approved_at |-> NULL, progress_percentage |-> <<0>>,
   manual_progress_override |-> <<>>]

\* a row as INSERT INTO enrollments (student_id, course_id, status) creates it,
\* the other columns taking the defaults of the CREATE TABLE statement
NewEnrollment(id, s, c) ==
  [id |-> id, student_id |-> s, course_id |-> c, status |-> "pending",
   approved_at |-> NULL, progress_percentage |-> <<0>>,
   manual_progress_override |-> <<>>]

Notification(user, title, related) ==
  [user_id |-> user, title |-> title, related_id |-> related]

AddNotification(bag, n) == bag (+) SetToBag({n})

NotificationsFull == BagCardinality(notifications) >= MaxNotifications

\* mutant: the handlers run without mutual exclusion
LockAvailableNoMutex == TRUE

\* `with db_lock:' can be entered only while no thread holds the lock
LockAvailable == db_lock = NoThread

\* what the last request was and what the handler answered
\* (arg: the enrollment key, progress value or quiz id of the form;
\* value: what update_student_progress returned to the handler, <<>> when the
\* handler did not call it)
Result(op, actor, eid, student, course, arg, outcome) ==
  [op |-> op, actor |-> actor, eid |-> eid, student |-> student,
   course |-> course, arg |-> arg, outcome |-> outcome, value |-> <<>>]

\* the worker thread that serves the next request
IdleThread ==
  IF \E t \in Threads : pc[t] = "idle"
  THEN CHOOSE t \in Threads : pc[t] = "idle"
  ELSE CHOOSE t \in Threads : TRUE

\* no request has been answered since the last response went out
NoResult == Result("none", NULL, 0, NULL, NoCourse, "", "none")

\* mutant: leaving the with block keeps the lock
release_never(lock, t) == lock

\* leaving `with db_lock:', by return or by exception, releases the lock the
\* thread holds
release(lock, t) == IF lock = t THEN NoThread ELSE lock

\* a handler starts on an idle worker thread once the previous response is out
\* and the lock can be taken
CanServe == last = NoResult /\ pc[IdleThread] = "idle" /\ LockAvailable

NoReq == [student |-> NULL, course |-> NoCourse, key |-> ""]

(* ------------------------------ Init ---------------------------------- *)
Init ==
  /\ enrollments = {}
  /\ nextEnrollmentId = 1
  /\ notifications = EmptyBag
  /\ submissions = {}
  /\ db_lock = NoThread
  /\ pc = [t \in Threads |-> "idle"]
  /\ req = [t \in Threads |-> NoReq]
  /\ last = NoResult
  /\ deleted = [courses |-> {}, users |-> {}]

(* ------------------------- student_enroll ----------------------------- *)
\* mutant: the capacity check lets one request too many through
EnrollOutcomeOffByOne(rows, s, code, key) ==
  LET found == CourseByCode(code)
      c == CHOOSE x \in found : TRUE
  IN  IF Users[s].role # "student" THEN "AccessDenied"
      ELSE IF code = "" \/ key = "" THEN "MissingFields"
      ELSE IF found = {} THEN "NotFound"
      ELSE IF Courses[c].enrollment_key_hash = NULL
              \/ ~check_password_hash(Courses[c].enrollment_key_hash, key)
           THEN "InvalidKey"
      ELSE IF FindEnrollment(rows, s, c) # {} THEN "AlreadyRequested"
      ELSE IF CountApproved(rows, c) > Courses[c].max_students THEN "CourseFull"
      ELSE "ok"

\* Everything of student_enroll up to the capacity check: the role check, the
\* form validation, and inside db_lock the course lookup, the key check, the
\* duplicate check and the capacity check.  A failing check releases the lock
\* and returns; otherwise the thread goes on to the INSERT holding the lock.
EnrollOutcome(rows, s, code, key) ==
  LET found == CourseByCode(code)
      c == CHOOSE x \in found : TRUE
  IN  IF Users[s].role # "student" THEN "AccessDenied"
      ELSE IF code = "" \/ key = "" THEN "MissingFields"
      ELSE IF found = {} THEN "NotFound"
      ELSE IF Courses[c].enrollment_key_hash = NULL
              \/ ~check_password_hash(Courses[c].enrollment_key_hash, key)
           THEN "InvalidKey"
      ELSE IF FindEnrollment(rows, s, c) # {} THEN "AlreadyRequested"
      ELSE IF CountApproved(rows, c) >= Courses[c].max_students THEN "CourseFull"
      ELSE "ok"


student_enroll_check(t, s, rawCode, key) ==
  LET code == Upper(rawCode)
      found == CourseByCode(code)
      c == IF found = {} THEN NoCourse ELSE CHOOSE x \in found : TRUE
      out == EnrollOutcome(enrollments, s, code, key)
  IN  /\ t = IdleThread
      /\ CanServe
      /\ IF out = "ok"
         THEN /\ nextEnrollmentId <= MaxEnrollmentId
              /\ ~NotificationsFull
              /\ db_lock' = t
              /\ pc' = [pc EXCEPT ![t] = "insert"]
              /\ req' = [req EXCEPT ![t] = [student |-> s, course |-> c, key |-> key]]
              /\ last' = last
         ELSE /\ last' = Result("enroll", s, 0, s,
                               IF out \in {"AccessDenied", "MissingFields"}
                               THEN NoCourse ELSE c, key, out)
              /\ UNCHANGED <<db_lock, pc, req>>
      /\ UNCHANGED <<enrollments, nextEnrollmentId, notifications, submissions, deleted>>

\* UNIQUE(student_id, course_id) of the enrollments table admits a new row
UniqueStudentCourse(rows, s, c) ==
  ~\E e \in rows : e.student_id = s /\ e.course_id = c

\* The try block of student_enroll: INSERT the pending row, INSERT the
\* instructor's notification, commit; any exception (a storage fault, or the
\* UNIQUE(student_id, course_id) constraint) rolls both back.  The lock is
\* released on leaving the with block.
student_enroll_insert(t, fault) ==
  LET s == req[t].student
      c == req[t].course
      unique == UniqueStudentCourse(enrollments, s, c)
  IN  /\ pc[t] = "insert"
      /\ last = NoResult
      /\ IF fault \/ ~unique
         THEN /\ last' = Result("enroll", s, 0, s, c, req[t].key,
                               IF fault THEN "StorageError" ELSE "IntegrityError")
              /\ UNCHANGED <<enrollments, nextEnrollmentId, notifications>>
         ELSE /\ enrollments' = enrollments \cup {NewEnrollment(nextEnrollmentId, s, c)}
              /\ nextEnrollmentId' = nextEnrollmentId + 1
              /\ notifications' = AddNotification(notifications,
                     Notification(Courses[c].instructor_id, "New Enrollment Request", c))
              /\ last' = Result("enroll", s, nextEnrollmentId, s, c, req[t].key, "Requested")
      /\ db_lock' = release(db_lock, t)
      /\ pc' = [pc EXCEPT ![t] = "idle"]
      /\ req' = [req EXCEPT ![t] = NoReq]
      /\ UNCHANGED <<submissions, deleted>>

(* ---------------------- instructor transitions ------------------------ *)
\* @instructor_required: admins pass, other users must be approved instructors
instructor_required(actor) ==
  \/ Users[actor].role = "admin"
  \/ /\ Users[actor].role = "instructor"
     /\ Users[actor].instructor_approval_status = "approved"
\* mutant: the SELECT also returns rejected rows
OwnedEnrollmentOrRejected(rows, eid, actor, status) ==
  {e \in rows : /\ e.id = eid
                /\ Courses[e.course_id].instructor_id = actor
                /\ e.status \in {status, "rejected"}}

\* mutant: the SELECT also returns rows that are already approved
OwnedEnrollmentOrApproved(rows, eid, actor, status) ==
  {e \in rows : /\ e.id = eid
                /\ Courses[e.course_id].instructor_id = actor
                /\ e.status \in {status, "approved"}}

\* mutant: the SELECT does not filter on the status
OwnedEnrollmentAnyStatus(rows, eid, actor, status) ==
  {e \in rows : /\ e.id = eid
                /\ Courses[e.course_id].instructor_id = actor}

\* SELECT e.* FROM enrollments e JOIN courses c ... JOIN users u ...
\* WHERE e.id = ? AND c.instructor_id = ? AND e.status = ?
OwnedEnrollment(rows, eid, actor, status) ==
  {e \in rows : /\ e.id = eid
                /\ e.course_id \in ExistingCourses
                /\ e.student_id \in ExistingUsers
                /\ Courses[e.course_id].instructor_id = actor
                /\ e.status = status}

\* mutant: the approval does not stamp approved_at
SetApprovedNoTimestamp(rows, eid) ==
  {IF e.id = eid THEN [e EXCEPT !.status = "approved"] ELSE e : e \in rows}

\* UPDATE enrollments SET status = 'approved', approved_at = CURRENT_TIMESTAMP
\* WHERE id = ?
SetApproved(rows, eid) ==
  {IF e.id = eid
   THEN [e EXCEPT !.status = "approved", !.approved_at = CURRENT_TIMESTAMP]
   ELSE e : e \in rows}

\* UPDATE enrollments SET status = 'rejected' WHERE id = ?
SetRejected(rows, eid) ==
  {IF e.id = eid THEN [e EXCEPT !.status = "rejected"] ELSE e : e \in rows}

\* UPDATE enrollments SET status = 'blocked' WHERE id = ?
SetBlocked(rows, eid) ==
  {IF e.id = eid THEN [e EXCEPT !.status = "blocked"] ELSE e : e \in rows}

\* UPDATE enrollments SET status = 'approved' WHERE id = ?
SetUnblocked(rows, eid) ==
  {IF e.id = eid THEN [e EXCEPT !.status = "approved"] ELSE e : e \in rows}

\* mutant: the DELETE removes nothing
DeleteByIdKeepsRow(rows, eid) == rows

\* DELETE FROM enrollments WHERE id = ?
DeleteById(rows, eid) == {e \in rows : e.id # eid}

\* mutant: the except branch keeps the rows the UPDATE / DELETE has written
rollback_keeps_write(committed, written) == written

\* conn.rollback() in the except branch: the table is again as it was at the
\* last commit, whatever the open transaction had written
rollback(committed, written) == committed

\* The part the five enrollment routes share: the decorator, the guarded
\* SELECT, then in one transaction the write `newRows' and the student's
\* notification; an exception (raised by the UPDATE / DELETE, by the INSERT
\* of the notification or by the commit) rolls the transaction back.
InstructorTransition(op, actor, eid, from, newRows, title, okOutcome) ==
  LET hit == OwnedEnrollment(enrollments, eid, actor, from)
      e == CHOOSE x \in hit : TRUE
  IN  /\ CanServe
      /\ IF ~instructor_required(actor)
         THEN /\ last' = Result(op, actor, eid, NULL, NoCourse, "", "AccessDenied")
              /\ UNCHANGED <<enrollments, notifications>>
         ELSE IF hit = {}
         THEN /\ last' = Result(op, actor, eid, NULL, NoCourse, "", "NotFound")
              /\ UNCHANGED <<enrollments, notifications>>
         ELSE \/ /\ last' = Result(op, actor, eid, NULL, NoCourse, "", "StorageError")
                 /\ enrollments' = rollback(enrollments, newRows)
                 /\ notifications' = notifications
              \/ /\ ~NotificationsFull
                 /\ enrollments' = newRows
                 /\ notifications' = AddNotification(notifications,
                                        Notification(e.student_id, title, e.course_id))
                 /\ last' = Result(op, actor, eid, NULL, NoCourse, "", okOutcome)
      /\ UNCHANGED <<nextEnrollmentId, submissions, db_lock, pc, req, deleted>>

instructor_approve_enrollment(actor, eid) ==
  InstructorTransition("approve", actor, eid, "pending",
                       SetApproved(enrollments, eid),
                       "Enrollment Approved", "Approved")

instructor_reject_enrollment(actor, eid) ==
  InstructorTransition("reject", actor, eid, "pending",
                       SetRejected(enrollments, eid),
                       "Enrollment Not Approved", "Rejected")

\* mutant: block acts on pending enrollments
instructor_block_pending(actor, eid) ==
  InstructorTransition("block", actor, eid, "pending",
                       SetBlocked(enrollments, eid),
                       "Course Access Blocked", "Blocked")

instructor_block_student(actor, eid) ==
  InstructorTransition("block", actor, eid, "approved",
                       SetBlocked(enrollments, eid),
                       "Course Access Blocked", "Blocked")

instructor_remove_student(actor, eid) ==
  InstructorTransition("remove", actor, eid, "approved",
                       DeleteById(enrollments, eid),
                       "Removed from Course", "Removed")

instructor_unblock_student(actor, eid) ==
  InstructorTransition("unblock", actor, eid, "blocked",
                       SetUnblocked(enrollments, eid),
                       "Course Access Restored", "Unblocked")

(* --------------------------- progress --------------------------------- *)
\* REAL columns hold <<x>> for the number x and <<>> for SQL NULL
NullReal == <<>>
Real(x) == <<x>>

\* Python floats: <<"num", x>>, or <<"nan">>; float() may raise ValueError
Num(x) == <<"num", x>>
NaN == <<"nan">>
ValueError == <<"ValueError">>

\* float(progress) on the form values the model submits
ParseFloat(str) ==
  CASE str = "-1"  -> Num(-1)
    [] str = "0"   -> Num(0)
    [] str = "90"  -> Num(90)
    [] str = "101" -> Num(101)
    [] str = "nan" -> NaN
    [] OTHER       -> ValueError

\* progress < 0 or progress > 100 (both comparisons are false for NaN)
OutOfRange(x) == x[1] = "num" /\ (x[2] < 0 \/ x[2] > 100)

\* a float bound to a REAL column: SQLite stores NaN as NULL
BindReal(x) == IF x = NaN THEN NullReal ELSE Real(x[2])

\* SELECT COUNT(*) FROM assignments WHERE course_id = ? AND
\* assignment_type = 'quiz' AND is_active = 1: the rows it counts where the
\* statement can be prepared
ActiveQuizzes(c) ==
  {q \in AssignmentIds : /\ Assignments[q].course_id = c
                         /\ Assignments[q].assignment_type = "quiz"}

\* the quiz counts of update_student_progress name the column is_active of
\* assignments; SQLite raises OperationalError (no such column) when the
\* table has none
QuizCountRaises == "is_active" \notin AssignmentColumns

\* SELECT COUNT(DISTINCT a.id) ... JOIN assignment_submissions ... sub.student_id = ?
SubmittedQuizzes(subs, s, c) ==
  {q \in ActiveQuizzes(c) : <<s, q>> \in subs}

\* auto_progress of update_student_progress
AutoProgress(subs, s, c) ==
  IF Cardinality(ActiveQuizzes(c)) = 0 THEN 0
  ELSE (Cardinality(SubmittedQuizzes(subs, s, c)) * 100) \div Cardinality(ActiveQuizzes(c))

\* mutant: every run raises the stored value
update_student_progress_adds(rows, subs, s, c) ==
  {IF e.student_id = s /\ e.course_id = c
   THEN [e EXCEPT !.progress_percentage =
           IF @ = NullReal THEN Real(1) ELSE Real(@[1] + 1)]
   ELSE e : e \in rows}

\* the rows after update_student_progress(conn, s, c); an exception of the
\* quiz count is caught by the function before its UPDATE is reached
update_student_progress(rows, subs, s, c) ==
  IF QuizCountRaises THEN rows
  ELSE {IF e.student_id = s /\ e.course_id = c
        THEN [e EXCEPT !.progress_percentage = Real(AutoProgress(subs, s, c))]
        ELSE e : e \in rows}

\* the value update_student_progress returns: the override read at its start
\* if there is one, else the automatic value; 0 from the except branch
update_student_progress_result(rows, subs, s, c) ==
  LET found == FindEnrollment(rows, s, c)
      e == CHOOSE x \in found : TRUE
  IN  IF QuizCountRaises THEN Real(0)
      ELSE IF found # {} /\ e.manual_progress_override # NullReal
      THEN e.manual_progress_override
      ELSE Real(AutoProgress(subs, s, c))

\* COALESCE(e.manual_progress_override, e.progress_percentage) AS
\* display_progress, the value the progress page of a course shows
display_progress(e) ==
  IF e.manual_progress_override # NullReal
  THEN e.manual_progress_override
  ELSE e.progress_percentage

\* send_notification: a second connection inserts and commits the row; while
\* the handler's own connection holds an uncommitted write the insert times out
\* with "database is locked", which send_notification logs and swallows
send_notification(bag, writerBusy, user, title, related) ==
  IF writerBusy THEN bag ELSE AddNotification(bag, Notification(user, title, related))
\* mutant: the SELECT does not filter on the instructor
OwnedCourseAnyInstructor(c, actor) == c \in CourseIds

\* SELECT * FROM courses WHERE id = ? AND instructor_id = ?
OwnedCourse(c, actor) == c \in ExistingCourses /\ Courses[c].instructor_id = actor

ProgressOutcome(actor, c, str) ==
  IF ~instructor_required(actor) THEN "AccessDenied"
  ELSE IF ~OwnedCourse(c, actor) THEN "Forbidden"
  ELSE IF str = "" THEN "Empty"
  ELSE IF ParseFloat(str) = ValueError THEN "InvalidArgument"
  ELSE IF OutOfRange(ParseFloat(str)) THEN "InvalidArgument"
  ELSE "ok"

\* mutant: the UPDATE adds the value to the stored progress
SetOverrideAdds(rows, s, c, x) ==
  {IF e.student_id = s /\ e.course_id = c
   THEN [e EXCEPT !.manual_progress_override = BindReal(x),
                  !.progress_percentage =
                     IF @ = NullReal \/ x = NaN THEN BindReal(x) ELSE Real(@[1] + x[2])]
   ELSE e : e \in rows}

\* UPDATE enrollments SET manual_progress_override = ?, progress_percentage = ?
\* WHERE course_id = ? AND student_id = ?
SetOverride(rows, s, c, x) ==
  {IF e.student_id = s /\ e.course_id = c
   THEN [e EXCEPT !.manual_progress_override = BindReal(x),
                  !.progress_percentage = BindReal(x)]
   ELSE e : e \in rows}

\* UPDATE enrollments SET manual_progress_override = NULL
\* WHERE course_id = ? AND student_id = ?
ClearOverride(rows, s, c) ==
  {IF e.student_id = s /\ e.course_id = c
   THEN [e EXCEPT !.manual_progress_override = NullReal]
   ELSE e : e \in rows}

instructor_set_student_progress(actor, c, s, str) ==
  LET out == ProgressOutcome(actor, c, str)
      cleared == ClearOverride(enrollments, s, c)
  IN  /\ CanServe
      /\ IF out = "Empty"
         THEN \* clear branch: UPDATE, commit, recompute (commits), then notify
              \/ /\ ~NotificationsFull
                 /\ enrollments' = update_student_progress(cleared, submissions, s, c)
                 /\ notifications' = send_notification(notifications, FALSE, s,
                                                       "Course Progress Updated", c)
                 /\ last' = [Result("clear_progress", actor, 0, s, c, str, "Cleared")
                             EXCEPT !.value =
                               update_student_progress_result(cleared, submissions, s, c)]
              \/ /\ last' = Result("clear_progress", actor, 0, s, c, str, "StorageError")
                 /\ UNCHANGED <<enrollments, notifications>>
         ELSE IF out = "ok"
         THEN \* UPDATE, notify while the UPDATE is uncommitted, commit
              \/ /\ enrollments' = SetOverride(enrollments, s, c, ParseFloat(str))
                 /\ notifications' = send_notification(notifications, TRUE, s,
                                                       "Course Progress Updated", c)
                 /\ last' = Result("set_progress", actor, 0, s, c, str, "Set")
              \/ /\ last' = Result("set_progress", actor, 0, s, c, str, "StorageError")
                 /\ UNCHANGED <<enrollments, notifications>>
         ELSE /\ last' = Result(IF str = "" THEN "clear_progress" ELSE "set_progress",
                                actor, 0, s, c, str, out)
              /\ UNCHANGED <<enrollments, notifications>>
      /\ UNCHANGED <<nextEnrollmentId, submissions, db_lock, pc, req, deleted>>

\* mutant: the SELECT returns the students of every status
EnrolledStudents(rows, c) ==
  {e.student_id : e \in {x \in rows : x.course_id = c}}

\* SELECT e.student_id ... WHERE e.course_id = ? AND e.status = 'approved'
ApprovedStudents(rows, c) ==
  {e.student_id : e \in {x \in rows : x.course_id = c /\ x.status = "approved"}}

\* the loop of instructor_set_progress_bulk: one UPDATE per approved student
RECURSIVE SetOverrideAll(_, _, _, _)
SetOverrideAll(rows, students, c, x) ==
  IF students = {} THEN rows
  ELSE LET s == CHOOSE y \in students : TRUE
       IN  SetOverrideAll(SetOverride(rows, s, c, x), students \ {s}, c, x)

instructor_set_progress_bulk(actor, c, str) ==
  LET out == ProgressOutcome(actor, c, str)
      students == ApprovedStudents(enrollments, c)
  IN  /\ CanServe
      /\ IF out = "ok"
         THEN \/ /\ enrollments' = SetOverrideAll(enrollments, students, c, ParseFloat(str))
                 \* every send_notification of the loop runs while the UPDATEs
                 \* are uncommitted
                 /\ notifications' = notifications
                 /\ last' = Result("set_progress_bulk", actor, 0, NULL, c, str, "Set")
              \/ /\ last' = Result("set_progress_bulk", actor, 0, NULL, c, str, "StorageError")
                 /\ UNCHANGED <<enrollments, notifications>>
         ELSE /\ last' = Result("set_progress_bulk", actor, 0, NULL, c, str,
                                IF out = "Empty" THEN "InvalidArgument" ELSE out)
              /\ UNCHANGED <<enrollments, notifications>>
      /\ UNCHANGED <<nextEnrollmentId, submissions, db_lock, pc, req, deleted>>

(* ------------------------- student_submit_quiz ------------------------ *)
\* mutant: the access check accepts an enrollment of any status
QuizAccessAnyStatus(rows, s, q) ==
  /\ q \in AssignmentIds
  /\ \E e \in rows : /\ e.course_id = Assignments[q].course_id
                     /\ e.student_id = s

\* SELECT a.* ... LEFT JOIN enrollments e ON c.id = e.course_id AND
\* e.student_id = ? WHERE a.id = ? AND e.status = 'approved'
QuizAccess(rows, s, q) ==
  /\ q \in AssignmentIds
  /\ Assignments[q].course_id \in ExistingCourses
  /\ \E e \in rows : /\ e.course_id = Assignments[q].course_id
                     /\ e.student_id = s
                     /\ e.status = "approved"

student_submit_quiz(s, q) ==
  LET c == Assignments[q].course_id
  IN  /\ CanServe
      /\ IF Users[s].role # "student"
         THEN /\ last' = Result("submit_quiz", s, 0, s, NoCourse, q, "AccessDenied")
              /\ UNCHANGED <<enrollments, submissions>>
         ELSE IF ~QuizAccess(enrollments, s, q)
         THEN /\ last' = Result("submit_quiz", s, 0, s, c, q, "NotFound")
              /\ UNCHANGED <<enrollments, submissions>>
         ELSE \/ /\ submissions' = submissions \cup {<<s, q>>}
                 /\ enrollments' = update_student_progress(enrollments, submissions', s, c)
                 /\ last' = [Result("submit_quiz", s, 0, s, c, q, "Submitted")
                             EXCEPT !.value =
                               update_student_progress_result(enrollments, submissions', s, c)]
              \/ /\ last' = Result("submit_quiz", s, 0, s, c, q, "StorageError")
                 /\ UNCHANGED <<enrollments, submissions>>
      /\ UNCHANGED <<nextEnrollmentId, notifications, db_lock, pc, req, deleted>>

(* ------------------------------ deletes ------------------------------- *)
\* @admin_required
admin_required(actor) == Users[actor].role = "admin"

\* DELETE FROM enrollments WHERE student_id = ?
DeleteByStudent(rows, s) == {e \in rows : e.student_id # s}

\* admin_delete_student: the student is looked up, the enrollments are
\* deleted, then DELETE FROM student_notes runs; where the database has no
\* such table the statement raises, the handler answers 500 and the
\* connection is dropped without a commit, which undoes the DELETE before it.
admin_delete_student(actor, sid) ==
  /\ CanServe
  /\ IF ~admin_required(actor)
     THEN /\ last' = Result("delete_student", actor, 0, sid, NoCourse, "", "AccessDenied")
          /\ UNCHANGED <<enrollments, deleted>>
     ELSE IF sid \notin ExistingUsers \/ Users[sid].role # "student"
     THEN /\ last' = Result("delete_student", actor, 0, sid, NoCourse, "", "NotFound")
          /\ UNCHANGED <<enrollments, deleted>>
     ELSE IF "student_notes" \notin Tables
     THEN /\ last' = Result("delete_student", actor, 0, sid, NoCourse, "", "StorageError")
          /\ UNCHANGED <<enrollments, deleted>>
     ELSE /\ enrollments' = DeleteByStudent(enrollments, sid)
          /\ deleted' = [deleted EXCEPT !.users = @ \cup {sid}]
          /\ last' = Result("delete_student", actor, 0, sid, NoCourse, "", "Deleted")
  /\ UNCHANGED <<nextEnrollmentId, notifications, submissions, db_lock, pc, req>>
\* mutant: the course is deleted without its enrollments
DeleteByCourseKeepsRows(rows, c) == rows

\* DELETE FROM enrollments WHERE course_id = ?
DeleteByCourse(rows, c) == {e \in rows : e.course_id # c}

\* instructor_delete_course: the course is looked up with its owner; then in
\* one transaction its enrollments and the course row are deleted (the
\* DELETEs on optional tables are skipped when they fail); an exception rolls
\* the transaction back.
instructor_delete_course(actor, c) ==
  /\ CanServe
  /\ IF ~instructor_required(actor)
     THEN /\ last' = Result("delete_course", actor, 0, NULL, c, "", "AccessDenied")
          /\ UNCHANGED <<enrollments, deleted>>
     ELSE IF ~OwnedCourse(c, actor)
     THEN /\ last' = Result("delete_course", actor, 0, NULL, c, "", "NotFound")
          /\ UNCHANGED <<enrollments, deleted>>
     ELSE \/ /\ last' = Result("delete_course", actor, 0, NULL, c, "", "StorageError")
             /\ enrollments' = rollback(enrollments, DeleteByCourse(enrollments, c))
             /\ deleted' = deleted
          \/ /\ enrollments' = DeleteByCourse(enrollments, c)
             /\ deleted' = [deleted EXCEPT !.courses = @ \cup {c}]
             /\ last' = Result("delete_course", actor, 0, NULL, c, "", "Deleted")
  /\ UNCHANGED <<nextEnrollmentId, notifications, submissions, db_lock, pc, req>>

(* ----------------------------- response ------------------------------ *)
\* the handler's return: the flash message / JSON body goes out
send_response ==
  /\ last # NoResult
  /\ last' = NoResult
  /\ UNCHANGED <<enrollments, nextEnrollmentId, notifications, submissions,
                 db_lock, pc, req, deleted>>

(* ------------------------------ inputs -------------------------------- *)
EnrollmentIdInputs == 1..MaxEnrollmentId
\* who sends enrollment requests: users of every role
EnrollActors == UserIds
\* who calls the instructor routes: users of every role
InstructorActors == UserIds
ProgressInputs == {"", "abc", "-1", "0", "90", "101", "nan"}

(* ---------------------- next-state relations -------------------------- *)
student_enroll(actors, codes, keys) ==
  \/ \E s \in actors, code \in codes, key \in keys :
        student_enroll_check(IdleThread, s, code, key)
  \/ \E t \in Threads, fault \in BOOLEAN : student_enroll_insert(t, fault)

EnrollmentRoutes(actors) ==
  \/ \E a \in actors, eid \in EnrollmentIdInputs : instructor_approve_enrollment(a, eid)
  \/ \E a \in actors, eid \in EnrollmentIdInputs : instructor_reject_enrollment(a, eid)
  \/ \E a \in actors, eid \in EnrollmentIdInputs : instructor_block_student(a, eid)
  \/ \E a \in actors, eid \in EnrollmentIdInputs : instructor_remove_student(a, eid)
  \/ \E a \in actors, eid \in EnrollmentIdInputs : instructor_unblock_student(a, eid)

ProgressRoutes(actors, courses, values) ==
  \/ \E a \in actors, c \in courses, s \in Students, v \in values :
        instructor_set_student_progress(a, c, s, v)
  \/ \E a \in actors, c \in courses, v \in values :
        instructor_set_progress_bulk(a, c, v)

\* the enrollment lifecycle: requests with every kind of form input, and the
\* five instructor routes
Next ==
  \/ student_enroll(EnrollActors, CourseCodeInputs, KeyInputs)
  \/ EnrollmentRoutes(InstructorActors)
  \/ send_response

Spec == Init /\ [][Next]_vars

\* every route that writes an enrollment, called by users of every role;
\* students request enrollment in c1 with well-formed forms
NextAuth ==
  \/ student_enroll(Students, {"cs1"}, {"key1"})
  \/ EnrollmentRoutes(UserIds)
  \/ ProgressRoutes(UserIds, {"c1", "c2"}, {"", "90"})
  \/ send_response

SpecAuth == Init /\ [][NextAuth]_vars

\* progress tracking: enrollment and approval by the owners, quiz
\* submissions, overrides with every kind of form value
NextProgress ==
  \/ student_enroll(Students, {"cs1"}, {"key1"})
  \/ \E a \in {"i1"}, eid \in EnrollmentIdInputs : instructor_approve_enrollment(a, eid)
  \/ \E a \in {"i1"}, eid \in EnrollmentIdInputs : instructor_block_student(a, eid)
  \/ ProgressRoutes({"i1"}, {"c1"}, ProgressInputs)
  \/ \E s \in Students, q \in AssignmentIds : student_submit_quiz(s, q)
  \/ send_response

SpecProgress == Init /\ [][NextProgress]_vars

\* what students do to enrollments: requests and quiz submissions (also by
\* a user who is no student) while the owner moves the enrollments through
\* every status and sets an override
NextStudent ==
  \/ student_enroll(Students, {"cs1"}, {"key1"})
  \/ EnrollmentRoutes({"i1"})
  \/ \E s \in Students : instructor_set_student_progress("i1", "c1", s, "90")
  \/ \E s \in Students \cup {"i1"}, q \in AssignmentIds : student_submit_quiz(s, q)
  \/ send_response

SpecStudent == Init /\ [][NextStudent]_vars

\* the lock: requests with valid and invalid forms, approvals, and sets and
\* clears of an override, whose notification fails or succeeds
NextLock ==
  \/ student_enroll(Students, {"", "cs1"}, {"key1", "key2"})
  \/ \E eid \in EnrollmentIdInputs : instructor_approve_enrollment("i1", eid)
  \/ \E s \in Students, v \in {"", "abc", "90"} :
        instructor_set_student_progress("i1", "c1", s, v)
  \/ send_response

\* a thread that is inside the with block keeps running, and a response that
\* is ready goes out
FairLock ==
  /\ WF_vars(\E t \in Threads, fault \in BOOLEAN : student_enroll_insert(t, fault))
  /\ WF_vars(send_response)

SpecLock == Init /\ [][NextLock]_vars /\ FairLock

\* accounts and courses come and go: requests of the students that still
\* exist, the five enrollment routes called by the instructors, deletes
\* called by an admin, the instructors and a student
NextDelete ==
  \/ student_enroll(Students \cap ExistingUsers, {"cs1", "CS2"}, {"key1", "key2"})
  \/ EnrollmentRoutes({"i1", "i2"})
  \/ \E a \in {"adm", "i1", "sA"}, sid \in {"sA", "sB", "i2"} : admin_delete_student(a, sid)
  \/ \E a \in {"adm", "i1", "i2", "sA"}, c \in {"c1", "c2"} : instructor_delete_course(a, c)
  \/ send_response

SpecDelete == Init /\ [][NextDelete]_vars

(* ============================== claims ================================ *)
\* the row with id eid, as a set (empty when there is none)
RowById(rows, eid) == {e \in rows : e.id = eid}

\* the rows of one (student, course) pair, and the approved rows of a course
PairRows(rows, s, c) == {e \in rows : e.student_id = s /\ e.course_id = c}
ApprovedCount(rows, c) ==
  Cardinality({e \in rows : e.course_id = c /\ e.status = "approved"})

\* the step just taken answered a request (it was not the response going out)
Answered == last' # NoResult

\* the step left every table as it was
TablesUnchanged ==
  /\ enrollments' = enrollments
  /\ notifications' = notifications
  /\ submissions' = submissions
  /\ nextEnrollmentId' = nextEnrollmentId

\* C1: at most one enrollment row per (student, course) in every reachable
\* state; enrollment requests never overlap inside the lock, so a request for
\* a pair that already has a row is always answered AlreadyRequested by the
\* duplicate check and never runs into the UNIQUE constraint.
C1_Uniqueness ==
  /\ \A e1, e2 \in enrollments :
        (e1.student_id = e2.student_id /\ e1.course_id = e2.course_id) => e1 = e2
  /\ \A t1, t2 \in Threads : (pc[t1] = "insert" /\ pc[t2] = "insert") => t1 = t2
  /\ last.outcome # "IntegrityError"

\* C1 witness: a second request for a pair that has a row was answered
\* AlreadyRequested and the pair still has exactly one row
C1_Witness ==
  /\ last.op = "enroll"
  /\ last.outcome = "AlreadyRequested"
  /\ Cardinality(PairRows(enrollments, last.student, last.course)) = 1

\* C2: the number of approved enrollments of a course never exceeds its
\* max_students.
C2_Capacity ==
  \A c \in CourseIds : ApprovedCount(enrollments, c) <= Courses[c].max_students

\* C3: an approve by the owning instructor of a pending enrollment, while the
\* approved count of the course equals max_students, is answered CourseFull
\* and leaves the row pending with approved_at null and no notification added
\* (storage faults aside).
C3_ApproveAtCapacityFails ==
  [][ \A e \in enrollments :
        ( /\ Answered
          /\ last'.op = "approve"
          /\ last'.eid = e.id
          /\ last'.actor = Courses[e.course_id].instructor_id
          /\ e.status = "pending"
          /\ ApprovedCount(enrollments, e.course_id) = Courses[e.course_id].max_students
          /\ last'.outcome # "StorageError" )
        => ( /\ last'.outcome = "CourseFull"
             /\ e \in enrollments'
             /\ notifications' = notifications ) ]_vars

\* the status changes the transition table allows, with the route that makes them
TransitionTable ==
  { <<"pending", "approved", "approve">>,
    <<"pending", "rejected", "reject">>,
    <<"approved", "blocked", "block">>,
    <<"blocked", "approved", "unblock">> }

\* C4: every status is one of pending, approved, rejected, blocked, and every
\* status change of an existing row is one of the four changes of the
\* transition table, made by the route the table names.
C4_TransitionTable ==
  /\ [](\A e \in enrollments : e.status \in Statuses)
  /\ [][ \A e \in enrollments : \A f \in enrollments' :
           (e.id = f.id /\ e.status # f.status)
           => <<e.status, f.status, last'.op>> \in TransitionTable ]_vars

\* C4 witness: a row went approved -> blocked -> approved
C4_Witness ==
  /\ last.op = "unblock"
  /\ last.outcome = "Unblocked"
  /\ \E e \in RowById(enrollments, last.eid) : e.status = "approved"

\* the routes that act on one enrollment id, and those that act on a course
EnrollmentOps == {"approve", "reject", "block", "unblock", "remove"}
ProgressOps == {"set_progress", "clear_progress", "set_progress_bulk"}
Denied == {"AccessDenied", "NotFound", "Forbidden"}

\* C5: approve, reject, block, unblock and remove of an existing enrollment,
\* and set-progress, clear-progress and bulk-set-progress on a course that has
\* an enrollment, called by anyone but the instructor owning the course, are
\* answered with an access-denied / not-found error and change no enrollment
\* row and no notification.
C5_Authorization ==
  [][ /\ \A e \in enrollments :
           ( /\ Answered
             /\ last'.op \in EnrollmentOps
             /\ last'.eid = e.id
             /\ last'.actor # Courses[e.course_id].instructor_id )
           => (last'.outcome \in Denied /\ TablesUnchanged)
      /\ \A e \in enrollments :
           ( /\ Answered
             /\ last'.op \in ProgressOps
             /\ last'.course = e.course_id
             /\ last'.actor # Courses[e.course_id].instructor_id )
           => (last'.outcome \in Denied /\ TablesUnchanged) ]_vars

\* C5 witness: an instructor who does not own the course tried to set the
\* progress of an approved student and was refused
C5_Witness ==
  /\ last.op = "set_progress"
  /\ last.actor = "i2"
  /\ last.outcome = "Forbidden"
  /\ \E e \in PairRows(enrollments, last.student, last.course) :
        e.status = "approved"

\* C6: a request that succeeds adds exactly one row, for (student, course),
\* where there was none, with status pending, approved_at null,
\* progress_percentage 0 and no override, and adds exactly one notification,
\* addressed to the instructor of the course.
C6_RequestCreatesPending ==
  [][ (Answered /\ last'.op = "enroll" /\ last'.outcome = "Requested")
      => LET s == last'.student
             c == last'.course
             new == enrollments' \ enrollments
         IN  /\ PairRows(enrollments, s, c) = {}
             /\ enrollments \subseteq enrollments'
             /\ Cardinality(new) = 1
             /\ \A e \in new :
                   /\ e.student_id = s /\ e.course_id = c
                   /\ e.status = "pending"
                   /\ e.approved_at = NULL
                   /\ e.progress_percentage = Real(0)
                   /\ e.manual_progress_override = NullReal
                   /\ e.id = last'.eid
                   /\ \A o \in enrollments : o.id # e.id
             /\ notifications' = notifications (+) SetToBag(
                   {Notification(Courses[c].instructor_id, "New Enrollment Request", c)})
    ]_vars

\* C6 witness: a request succeeded in a course that already had a row of
\* another student
C6_Witness ==
  /\ last.op = "enroll"
  /\ last.outcome = "Requested"
  /\ \E e \in enrollments : e.course_id = last.course /\ e.student_id # last.student
  /\ \E e \in PairRows(enrollments, last.student, last.course) : e.status = "pending"

\* the request the step answered came from a student, named an active course
\* and carried the key of that course
ValidKeyRequest ==
  /\ Answered
  /\ last'.op = "enroll"
  /\ Users[last'.actor].role = "student"
  /\ last'.course \in CourseIds
  /\ Courses[last'.course].is_active = 1
  /\ Courses[last'.course].enrollment_key_hash # NULL
  /\ Courses[last'.course].enrollment_key_hash = generate_password_hash(last'.arg)

\* C7: a request with the correct key for a pair without a row is answered
\* CourseFull exactly when the approved count of the course is >= max_students
\* (rows of any other status do not count), and CourseFull changes nothing.
C7_CourseFullIffAtCapacity ==
  [][ ( /\ ValidKeyRequest
        /\ PairRows(enrollments, last'.student, last'.course) = {} )
      => /\ (last'.outcome = "CourseFull")
              <=> (ApprovedCount(enrollments, last'.course)
                     >= Courses[last'.course].max_students)
         /\ (last'.outcome = "CourseFull") => TablesUnchanged ]_vars

\* C7 witness: a request was answered CourseFull
C7_Witness ==
  /\ last.op = "enroll"
  /\ last.outcome = "CourseFull"
  /\ PairRows(enrollments, last.student, last.course) = {}

\* the step answered a valid-key request of a student without a row for a
\* course of capacity 1 whose one place is taken by another, approved student
ScenarioOne ==
  /\ ValidKeyRequest
  /\ Courses[last'.course].max_students = 1
  /\ PairRows(enrollments, last'.student, last'.course) = {}
  /\ \E a \in enrollments : /\ a.course_id = last'.course
                            /\ a.student_id # last'.student
                            /\ a.status = "approved"

\* C8 as stated: with capacity 1 and student A approved, the request of
\* student B with the correct key succeeds and creates a pending row for B.
C8_RequestSucceedsAtCapacity ==
  [][ ScenarioOne
      => /\ last'.outcome = "Requested"
         /\ \E e \in enrollments' : /\ e.student_id = last'.student
                                    /\ e.course_id = last'.course
                                    /\ e.status = "pending" ]_vars

\* C8 amended: with capacity 1 and student A approved, the request of student
\* B with the correct key is answered CourseFull and creates no row, so that
\* afterwards B has no pending enrollment that could be approved.
C8_RequestFailsAtCapacity ==
  [][ ScenarioOne
      => /\ last'.outcome = "CourseFull"
         /\ TablesUnchanged
         /\ PairRows(enrollments', last'.student, last'.course) = {} ]_vars

\* C8 witness: A is approved in c1 (capacity 1) and B's request was answered
\* CourseFull
C8_Witness ==
  /\ last.op = "enroll"
  /\ last.course = "c1"
  /\ last.arg = "key1"
  /\ last.outcome = "CourseFull"
  /\ \E a \in enrollments : a.course_id = "c1" /\ a.status = "approved"
                            /\ a.student_id # last.student
  /\ PairRows(enrollments, last.student, "c1") = {}

\* C9: a request of a student for an active course with a non-empty key that
\* does not match the stored hash, or for a course without a stored hash, is
\* answered InvalidKey and creates no row and no notification, whatever rows
\* exist.
C9_InvalidKey ==
  [][ ( /\ Answered
        /\ last'.op = "enroll"
        /\ Users[last'.actor].role = "student"
        /\ last'.course \in CourseIds
        /\ Courses[last'.course].is_active = 1
        /\ last'.arg # ""
        /\ \/ Courses[last'.course].enrollment_key_hash = NULL
           \/ Courses[last'.course].enrollment_key_hash
                 # generate_password_hash(last'.arg) )
      => (last'.outcome = "InvalidKey" /\ TablesUnchanged) ]_vars

\* C9 witness: a wrong key was refused for a course in which the student
\* already has a row and which is full
C9_Witness ==
  /\ last.op = "enroll"
  /\ last.outcome = "InvalidKey"
  /\ last.arg = "key2"
  /\ last.course = "c1"
  /\ PairRows(enrollments, last.student, "c1") # {}
  /\ ApprovedCount(enrollments, "c1") >= Courses["c1"].max_students

\* C10: a request with the correct key for a pair that already has a row, in
\* whatever status, is answered AlreadyRequested and changes no row and no
\* notification.
C10_AlreadyRequested ==
  [][ ( /\ ValidKeyRequest
        /\ PairRows(enrollments, last'.student, last'.course) # {} )
      => (last'.outcome = "AlreadyRequested" /\ TablesUnchanged) ]_vars

\* C10 witness: a rejected student asked again and was answered
\* AlreadyRequested
C10_Witness ==
  /\ last.op = "enroll"
  /\ last.outcome = "AlreadyRequested"
  /\ \E e \in PairRows(enrollments, last.student, last.course) :
        e.status = "rejected"

\* what approve and reject answer for a row they do not find pending: the
\* routes flash "Enrollment not found or already processed."
AlreadyProcessed == "NotFound"

\* C11: approve or reject, by the owning instructor, of an enrollment that is
\* not pending is answered AlreadyProcessed and changes no row and no
\* notification; of a pending one it either fails as a whole or sets the
\* status and records exactly one notification, so that of two calls on the
\* same pending row, which the lock serialises, the second finds the row
\* processed and only the first takes effect.
C11_AlreadyProcessed ==
  [][ \A e \in enrollments :
        ( /\ Answered
          /\ last'.op \in {"approve", "reject"}
          /\ last'.eid = e.id
          /\ last'.actor = Courses[e.course_id].instructor_id )
        => IF e.status # "pending"
           THEN last'.outcome = AlreadyProcessed /\ TablesUnchanged
           ELSE \/ last'.outcome = "StorageError" /\ TablesUnchanged
                \/ /\ last'.outcome = (IF last'.op = "approve" THEN "Approved"
                                                               ELSE "Rejected")
                   /\ \E f \in RowById(enrollments', e.id) :
                         f.status = (IF last'.op = "approve" THEN "approved"
                                                             ELSE "rejected")
                   /\ BagCardinality(notifications') = BagCardinality(notifications) + 1
    ]_vars

\* C11 witness: a second approve of a row that the first approve had
\* processed was refused, and the one notification of the first is all there is
C11_Witness ==
  /\ last.op = "approve"
  /\ last.outcome = AlreadyProcessed
  /\ \E e \in RowById(enrollments, last.eid) :
        /\ e.status = "approved"
        /\ last.actor = Courses[e.course_id].instructor_id
        /\ CopiesIn(Notification(e.student_id, "Enrollment Approved", e.course_id),
                    notifications) = 1

\* the notification each enrollment route records for the student
TransitionNotice ==
  [approve |-> "Enrollment Approved", reject |-> "Enrollment Not Approved",
   block |-> "Course Access Blocked", unblock |-> "Course Access Restored",
   remove |-> "Removed from Course"]

SuccessOutcomes ==
  {"Requested", "Approved", "Rejected", "Blocked", "Unblocked", "Removed"}

\* how many notifications with this title student s has for course c
Notices(s, c, title) == CopiesIn(Notification(s, title, c), notifications)

\* how many notifications with this title exist for course c
CourseNotices(c, title) ==
  LET ns == {n \in BagToSet(notifications) : n.title = title /\ n.related_id = c}
  IN  BagCardinality([n \in ns |-> notifications[n]])

\* how many rows of (s, c) have this status (0 or 1)
PairStatus(s, c, status) ==
  Cardinality({e \in PairRows(enrollments, s, c) : e.status = status})

\* C12: a request, approve, reject, block, unblock or remove either changes
\* nothing (every refusal and every storage fault) or changes the enrollment
\* and adds exactly the one notification that belongs to the change; hence in
\* every reachable state the notifications account for the rows: each row
\* ever created has its request notification, and the status of every
\* (student, course) pair is the one its transition notifications add up to.
C12_Atomicity ==
  /\ [][ (Answered /\ last'.op \in EnrollmentOps \cup {"enroll"})
         => \/ last'.outcome \notin SuccessOutcomes /\ TablesUnchanged
            \/ /\ last'.outcome \in SuccessOutcomes
               /\ enrollments' # enrollments
               /\ \E e \in enrollments \cup enrollments' :
                     /\ e.id = last'.eid
                     /\ notifications' = notifications (+) SetToBag(
                           {IF last'.op = "enroll"
                            THEN Notification(Courses[e.course_id].instructor_id,
                                              "New Enrollment Request", e.course_id)
                            ELSE Notification(e.student_id, TransitionNotice[last'.op],
                                              e.course_id)}) ]_vars
  /\ [](\A s \in Students, c \in CourseIds :
          /\ PairStatus(s, c, "approved")
               = Notices(s, c, "Enrollment Approved") + Notices(s, c, "Course Access Restored")
                 - Notices(s, c, "Course Access Blocked") - Notices(s, c, "Removed from Course")
          /\ PairStatus(s, c, "blocked")
               = Notices(s, c, "Course Access Blocked") - Notices(s, c, "Course Access Restored")
          /\ PairStatus(s, c, "rejected") = Notices(s, c, "Enrollment Not Approved"))
  /\ [](\A c \in CourseIds :
          CourseNotices(c, "New Enrollment Request")
            = Cardinality({e \in enrollments : e.course_id = c})
              + CourseNotices(c, "Removed from Course"))

\* C12 witness: a storage fault hit the block of an approved enrollment, the
\* row is still approved and no block notification exists
C12_Witness ==
  /\ last.op = "block"
  /\ last.outcome = "StorageError"
  /\ \E e \in RowById(enrollments, last.eid) :
        /\ e.status = "approved"
        /\ Notices(e.student_id, e.course_id, "Course Access Blocked") = 0
        /\ Notices(e.student_id, e.course_id, "Enrollment Approved") = 1

\* the quizzes of a course, and the automatic progress the progress contract
\* defines: 100 * submitted / total, 0 for a course without quizzes
QuizzesOf(c) ==
  {q \in AssignmentIds : Assignments[q].course_id = c
                          /\ Assignments[q].assignment_type = "quiz"}

ExpectedProgress(subs, s, c) ==
  IF QuizzesOf(c) = {} THEN 0
  ELSE (100 * Cardinality({q \in QuizzesOf(c) : <<s, q>> \in subs}))
         \div Cardinality(QuizzesOf(c))

\* the step answered a successful set of an override (single or bulk)
OverrideWasSet ==
  /\ Answered
  /\ last'.op \in {"set_progress", "set_progress_bulk"}
  /\ last'.outcome = "Set"

\* the step answered a request that ran the recomputation
Recomputed ==
  /\ Answered
  /\ \/ last'.op = "submit_quiz" /\ last'.outcome = "Submitted"
     \/ last'.op = "clear_progress" /\ last'.outcome = "Cleared"

\* C13: a successful set of a manual override (single or bulk) leaves the
\* stored progress_percentage of every enrollment unchanged; it changes
\* manual_progress_override only.
C13_SetKeepsProgressPercentage ==
  [][ OverrideWasSet
      => \A e \in enrollments : \E f \in RowById(enrollments', e.id) :
            /\ f.progress_percentage = e.progress_percentage
            /\ f.status = e.status
            /\ f.approved_at = e.approved_at ]_vars

\* C14: the display progress of every enrollment is its override when that is
\* non-null and its progress_percentage otherwise, and the value a
\* recomputation returns is the display progress of the row it recomputed.
C14_OverridePrecedence ==
  /\ [](\A e \in enrollments :
          display_progress(e) = IF e.manual_progress_override # NullReal
                                THEN e.manual_progress_override
                                ELSE e.progress_percentage)
  /\ [][ Recomputed
         => \A f \in PairRows(enrollments', last'.student, last'.course) :
               last'.value = IF f.manual_progress_override # NullReal
                             THEN f.manual_progress_override
                             ELSE f.progress_percentage ]_vars

\* C15: a successful clear by the owning instructor leaves the enrollment of
\* (student, course) with a null override and with progress_percentage equal
\* to 100 * submitted / total of that moment, and returns that value.
C15_ClearRecomputes ==
  [][ (Answered /\ last'.op = "clear_progress" /\ last'.outcome = "Cleared")
      => \A e \in PairRows(enrollments, last'.student, last'.course) :
            \E f \in RowById(enrollments', e.id) :
               /\ f.manual_progress_override = NullReal
               /\ f.progress_percentage
                    = Real(ExpectedProgress(submissions, last'.student, last'.course))
               /\ last'.value = f.progress_percentage ]_vars

\* C16: after every successful quiz submission or resubmission the stored
\* progress_percentage of the student's enrollment in the course of the quiz
\* equals 100 * submitted / total.
C16_SubmissionRecomputes ==
  [][ (Answered /\ last'.op = "submit_quiz" /\ last'.outcome = "Submitted")
      => \A f \in PairRows(enrollments', last'.student, last'.course) :
            f.progress_percentage
              = Real(ExpectedProgress(submissions', last'.student, last'.course)) ]_vars

\* C17: a recomputation that runs while a manual override is active still
\* stores the automatic value in progress_percentage, and changes neither
\* the override nor the status.
C17_RecomputesUnderOverride ==
  [][ (Answered /\ last'.op = "submit_quiz" /\ last'.outcome = "Submitted")
      => \A e \in PairRows(enrollments, last'.student, last'.course) :
            e.manual_progress_override # NullReal
            => \E f \in RowById(enrollments', e.id) :
                  /\ f.progress_percentage
                       = Real(ExpectedProgress(submissions', last'.student, last'.course))
                  /\ f.manual_progress_override = e.manual_progress_override
                  /\ f.status = e.status ]_vars

InvalidProgressValues == {"abc", "-1", "101", "nan"}

\* C19: a set of an override (single or bulk) by the owning instructor with a
\* value that is not a number of [0, 100] is answered InvalidArgument and
\* changes no enrollment and no notification.
C19_InvalidValueRefused ==
  [][ ( /\ Answered
        /\ last'.op \in {"set_progress", "set_progress_bulk"}
        /\ last'.arg \in InvalidProgressValues
        /\ last'.course \in CourseIds
        /\ last'.actor = Courses[last'.course].instructor_id )
      => (last'.outcome = "InvalidArgument" /\ TablesUnchanged) ]_vars

\* the students with an approved enrollment in course c
ApprovedIn(rows, c) ==
  {e.student_id : e \in {x \in rows : x.course_id = c /\ x.status = "approved"}}

\* C20: a successful set of an override adds one notification for each
\* student whose override was set: the one student of a single set who has
\* an enrollment in the course, every approved student of a bulk set.
C20_SetNotifies ==
  [][ OverrideWasSet
      => LET affected ==
               IF last'.op = "set_progress"
               THEN {e.student_id :
                       e \in PairRows(enrollments, last'.student, last'.course)}
               ELSE ApprovedIn(enrollments, last'.course)
         IN  /\ BagCardinality(notifications')
                  = BagCardinality(notifications) + Cardinality(affected)
             /\ \A s \in affected :
                   CopiesIn(Notification(s, "Course Progress Updated", last'.course),
                            notifications')
                     = 1 + CopiesIn(Notification(s, "Course Progress Updated",
                                                 last'.course), notifications) ]_vars

\* the form values that are numbers of [0, 100]
ValidProgressValues == {"0", "90"}

\* C21: after a successful set of an override with a valid value v (single or
\* bulk), the same call made again leaves every enrollment record as the
\* first call left it.
C21_SetIdempotent ==
  [][ (OverrideWasSet /\ last'.arg \in ValidProgressValues)
      => IF last'.op = "set_progress"
         THEN SetOverride(enrollments', last'.student, last'.course,
                          ParseFloat(last'.arg)) = enrollments'
         ELSE SetOverrideAll(enrollments', ApprovedStudents(enrollments', last'.course),
                             last'.course, ParseFloat(last'.arg)) = enrollments' ]_vars

\* C21 witness: the override of an existing enrollment was set to 90 and the
\* record holds 90
C21_Witness ==
  /\ last.op = "set_progress"
  /\ last.outcome = "Set"
  /\ last.arg = "90"
  /\ \E e \in PairRows(enrollments, last.student, last.course) :
        /\ e.manual_progress_override = Real(90)
        /\ e.progress_percentage = Real(90)

C24_NoOrphanEnrollment ==
  \A e \in enrollments :
     /\ e.course_id \in CourseIds \ deleted.courses
     /\ e.student_id \in UserIds \ deleted.users

\* C24 witness: a course for which enrollment had been requested was deleted
\* by its instructor and no enrollment of it is left, while an enrollment in
\* another course is still there
C24_Witness ==
  /\ last.op = "delete_course"
  /\ last.outcome = "Deleted"
  /\ last.course \in deleted.courses
  /\ CourseNotices(last.course, "New Enrollment Request") >= 1
  /\ \A e \in enrollments : e.course_id # last.course
  /\ enrollments # {}

\* C25: an enrollment becomes rejected only from pending, by reject; a
\* rejected enrollment stays in the table unchanged for as long as its course
\* and its student exist; and no student is approved in a course in which
\* the student was rejected.
C25_RejectedIsFinal ==
  /\ [][ /\ \A f \in enrollments' :
              f.status = "rejected"
              => \E e \in RowById(enrollments, f.id) :
                    \/ e.status = "rejected"
                    \/ e.status = "pending" /\ last'.op = "reject"
         /\ \A e \in enrollments :
              e.status = "rejected"
              => \/ e \in enrollments'
                 \/ e.course_id \in deleted'.courses
                 \/ e.student_id \in deleted'.users ]_vars
  /\ [](\A e \in enrollments :
          e.status \in {"approved", "blocked"}
          => Notices(e.student_id, e.course_id, "Enrollment Not Approved") = 0)

\* C25 witness: the owning instructor tried to approve a rejected enrollment
\* and was refused; the enrollment is still rejected
C25_Witness ==
  /\ last.op = "approve"
  /\ last.outcome = AlreadyProcessed
  /\ \E e \in RowById(enrollments, last.eid) :
        /\ e.status = "rejected"
        /\ last.actor = Courses[e.course_id].instructor_id

\* the status each of block, remove and unblock requires
RequiredStatus == [block |-> "approved", remove |-> "approved", unblock |-> "blocked"]

\* C26: block, remove and unblock called by the owning instructor on an
\* enrollment that has not the status the route requires, or by an
\* instructor on an id that no enrollment has, report an error and change no
\* table; on an enrollment of the required status they fail as a whole or
\* take effect.
C26_StatusPrecondition ==
  [][ (Answered /\ last'.op \in DOMAIN RequiredStatus)
      => /\ \A e \in RowById(enrollments, last'.eid) :
               last'.actor = Courses[e.course_id].instructor_id
               => IF e.status # RequiredStatus[last'.op]
                  THEN last'.outcome = "NotFound" /\ TablesUnchanged
                  ELSE \/ last'.outcome = "StorageError" /\ TablesUnchanged
                       \/ /\ last'.outcome \in {"Blocked", "Removed", "Unblocked"}
                          /\ e \notin enrollments'
         /\ RowById(enrollments, last'.eid) = {}
               => /\ last'.outcome \in {"NotFound", "AccessDenied"}
                  /\ TablesUnchanged ]_vars

\* C26 witness: the owning instructor tried to remove a blocked enrollment
\* and was refused
C26_Witness ==
  /\ last.op = "remove"
  /\ last.outcome = "NotFound"
  /\ \E e \in RowById(enrollments, last.eid) :
        /\ e.status = "blocked"
        /\ last.actor = Courses[e.course_id].instructor_id

\* C27: a quiz submission is accepted only from a student whose enrollment in
\* the course of the quiz is approved; from anyone else (pending, rejected,
\* blocked, removed, never enrolled, no student) it is denied and changes no
\* table.  No request for enrollment and no quiz submission changes the
\* status, approved_at or manual_progress_override of an existing enrollment.
C27_SubmissionRequiresApproval ==
  [][ /\ (Answered /\ last'.op = "submit_quiz")
          => IF /\ Users[last'.actor].role = "student"
                /\ \E e \in PairRows(enrollments, last'.actor,
                                      Assignments[last'.arg].course_id) :
                      e.status = "approved"
             THEN last'.outcome \in {"Submitted", "StorageError"}
             ELSE /\ last'.outcome \in {"NotFound", "AccessDenied"}
                  /\ TablesUnchanged
      /\ (Answered /\ last'.op \in {"enroll", "submit_quiz"})
          => \A e \in enrollments : \E f \in RowById(enrollments', e.id) :
                /\ f.status = e.status
                /\ f.approved_at = e.approved_at
                /\ f.manual_progress_override = e.manual_progress_override ]_vars

\* C27 witness: a student who had submitted the quiz while approved, and has
\* been blocked since, tried to submit it again and was denied
C27_Witness ==
  /\ last.op = "submit_quiz"
  /\ last.outcome = "NotFound"
  /\ <<last.actor, last.arg>> \in submissions
  /\ \E e \in PairRows(enrollments, last.actor, last.course) : e.status = "blocked"

\* C28: a successful remove leaves no record for the (student, course) pair
\* of the removed enrollment; and whenever a student without a record for a
\* course asks with the correct key while the approved count is below the
\* capacity, as after a removal, the request fails as a whole or creates a
\* fresh record: new id, pending, approved_at null, progress_percentage 0,
\* no override.
C28_RemoveFreesPair ==
  [][ /\ (Answered /\ last'.op = "remove" /\ last'.outcome = "Removed")
          => \A e \in RowById(enrollments, last'.eid) :
                /\ e.status = "approved"
                /\ PairRows(enrollments', e.student_id, e.course_id) = {}
      /\ ( /\ ValidKeyRequest
           /\ PairRows(enrollments, last'.student, last'.course) = {}
           /\ ApprovedCount(enrollments, last'.course)
                < Courses[last'.course].max_students )
          => \/ last'.outcome = "StorageError" /\ TablesUnchanged
             \/ /\ last'.outcome = "Requested"
                /\ PairRows(enrollments', last'.student, last'.course)
                     = { [id |-> last'.eid, student_id |-> last'.student,
                          course_id |-> last'.course, status |-> "pending",
                          approved_at |-> NULL, progress_percentage |-> Real(0),
                          manual_progress_override |-> NullReal] }
                /\ \A e \in enrollments : e.id < last'.eid ]_vars

\* C28 witness: a student who had been approved and removed asked again and
\* has a fresh pending record
C28_Witness ==
  /\ last.op = "enroll"
  /\ last.outcome = "Requested"
  /\ Notices(last.student, last.course, "Removed from Course") = 1
  /\ \E e \in PairRows(enrollments, last.student, last.course) :
        /\ e.id = last.eid
        /\ e.id > 1
        /\ e.status = "pending"
        /\ e.approved_at = NULL

\* a REAL column holds a number of [0, 100]
InRange(r) == Len(r) = 1 /\ r[1] >= 0 /\ r[1] <= 100

\* C29: in every reachable state progress_percentage of every enrollment is
\* a number of [0, 100] and manual_progress_override is null or a number of
\* [0, 100].
C29_ProgressInRange ==
  \A e \in enrollments :
     /\ InRange(e.progress_percentage)
     /\ e.manual_progress_override = NullReal \/ InRange(e.manual_progress_override)

\* the lock is held exactly by the one thread that is inside a with block
LockHeldByRunner ==
  /\ db_lock \in Threads \cup {NoThread}
  /\ \A t \in Threads : (db_lock = t) <=> (pc[t] # "idle")
  /\ \A t, u \in Threads : (pc[t] # "idle" /\ pc[u] # "idle") => t = u

====
